---------------------------- MODULE Spec2Model ----------------------------
(***************************************************************************)
(* Premium tracker: the due-date scheduler (src/app.py find_next_premium   *)
(* and src/notifier.py _next_due_for_policy), the reminder job             *)
(* (src/notifier.py check_due_premiums) and the policy store               *)
(* (src/sheets_db.py).                                                     *)
(*                                                                         *)
(* Python values are records [kind, n, s]: an int carries its value in n,  *)
(* a float carries its value in hundredths in n (amounts in the model have *)
(* at most two fractional digits), a str carries its characters in s (a    *)
(* sequence of one-character strings), None carries nothing.               *)
(* Dates are triples <<year, month, day>>.                                 *)
(***************************************************************************)
EXTENDS Integers, Sequences, FiniteSets, TLC

(***************************************************************************)
(* Bounds of the model                                                     *)
(***************************************************************************)
\* longest raw premium schedule drawn as an input (12 is the program's size)
MaxSchedLen == 13
\* the dates drawn as `today` lie in the years 2024 .. LastYear
LastYear == 2025
\* most data rows the worksheet holds
MaxRows == 2
\* most ticks of the clock that stamps created_at
MaxTicks == 1
\* most days the daily run of the reminder job is followed
MaxDays == 35

(***************************************************************************)
(* Python values                                                           *)
(***************************************************************************)
PyInt(v) == [kind |-> "int", n |-> v, s |-> <<>>]
PyFloat(c) == [kind |-> "float", n |-> c, s |-> <<>>]
PyStr(chars) == [kind |-> "str", n |-> 0, s |-> chars]
PyNone == [kind |-> "none", n |-> 0, s |-> <<>>]

\* bool(x) for the kinds above: None, 0, 0.0 and "" are falsy
Truthy(x) ==
    CASE x.kind = "none" -> FALSE
      [] x.kind = "int" -> x.n # 0
      [] x.kind = "float" -> x.n # 0
      [] OTHER -> x.s # <<>>

\* `a or b`
PyOr(a, b) == IF Truthy(a) THEN a ELSE b

DigitChars == <<"0", "1", "2", "3", "4", "5", "6", "7", "8", "9">>
DigitOf == [c \in {DigitChars[i] : i \in 1..10} |-> (CHOOSE i \in 1..10 : DigitChars[i] = c) - 1]
IsDigit(c) == c \in DOMAIN DigitOf
DigitVal(c) == DigitOf[c]
IsSpace(c) == c = " "

RECURSIVE NatStr(_)
NatStr(v) ==
    IF v < 10 THEN <<DigitChars[v + 1]>>
    ELSE NatStr(v \div 10) \o <<DigitChars[(v % 10) + 1]>>

RECURSIVE DigitsVal(_)
DigitsVal(cs) ==
    IF cs = <<>> THEN 0
    ELSE DigitsVal(SubSeq(cs, 1, Len(cs) - 1)) * 10 + DigitVal(cs[Len(cs)])

AllDigits(cs) == \A i \in 1..Len(cs) : IsDigit(cs[i])

\* repr of a float given in hundredths: 100.0 -> "100.0", 1000.5 -> "1000.5"
FloatStr(c) ==
    LET a == IF c < 0 THEN -c ELSE c
        fp == a % 100
        frac == IF fp % 10 = 0 THEN <<DigitChars[(fp \div 10) + 1]>>
                ELSE <<DigitChars[(fp \div 10) + 1], DigitChars[(fp % 10) + 1]>>
    IN (IF c < 0 THEN <<"-">> ELSE <<>>) \o NatStr(a \div 100) \o <<".">> \o frac

\* str(x)
Str(x) ==
    CASE x.kind = "none" -> <<"N", "o", "n", "e">>
      [] x.kind = "int" -> (IF x.n < 0 THEN <<"-">> \o NatStr(-x.n) ELSE NatStr(x.n))
      [] x.kind = "float" -> FloatStr(x.n)
      [] OTHER -> x.s

RECURSIVE LStrip(_)
LStrip(cs) == IF cs # <<>> /\ IsSpace(cs[1]) THEN LStrip(Tail(cs)) ELSE cs

RECURSIVE RStrip(_)
RStrip(cs) ==
    IF cs # <<>> /\ IsSpace(cs[Len(cs)]) THEN RStrip(SubSeq(cs, 1, Len(cs) - 1)) ELSE cs

\* s.strip()
Strip(cs) == RStrip(LStrip(cs))

\* s.replace(c, "")
Remove(cs, c) == SelectSeq(cs, LAMBDA x : x # c)

\* s.isdigit()
IsDigitStr(cs) == cs # <<>> /\ AllDigits(cs)

Unsigned(cs) == IF cs # <<>> /\ cs[1] \in {"+", "-"} THEN Tail(cs) ELSE cs
Negative(cs) == cs # <<>> /\ cs[1] = "-"

\* int(s) of a string: [ok |-> FALSE] stands for ValueError
ParseInt(cs) ==
    LET t == Strip(cs)
        body == Unsigned(t)
    IN IF body # <<>> /\ AllDigits(body)
       THEN [ok |-> TRUE, v |-> IF Negative(t) THEN -DigitsVal(body) ELSE DigitsVal(body)]
       ELSE [ok |-> FALSE, v |-> 0]

Dots(cs) == {i \in 1..Len(cs) : cs[i] = "."}

\* float(s) of a string, in hundredths: [ok |-> FALSE] stands for ValueError
ParseFloat(cs) ==
    LET t == Strip(cs)
        body == Unsigned(t)
        dot == IF Dots(body) = {} THEN Len(body) + 1 ELSE CHOOSE i \in Dots(body) : TRUE
        ip == SubSeq(body, 1, dot - 1)
        fp == SubSeq(body, dot + 1, Len(body))
        fp2 == SubSeq(fp \o <<"0", "0">>, 1, 2)
        mag == DigitsVal(ip) * 100 + DigitsVal(fp2)
    IN IF Cardinality(Dots(body)) <= 1 /\ AllDigits(ip) /\ AllDigits(fp)
          /\ Len(ip) + Len(fp) > 0
       THEN [ok |-> TRUE, v |-> IF Negative(t) THEN -mag ELSE mag]
       ELSE [ok |-> FALSE, v |-> 0]

(***************************************************************************)
(* Calendar                                                                *)
(***************************************************************************)
NoDate == <<0, 0, 0>>
MkDate(y, mo, d) == <<y, mo, d>>

IsLeap(y) == y % 4 = 0 /\ (y % 100 # 0 \/ y % 400 = 0)

\* calendar.monthrange(y, mo)[1]
LastDom(y, mo) ==
    IF mo = 2 THEN (IF IsLeap(y) THEN 29 ELSE 28)
    ELSE IF mo \in {4, 6, 9, 11} THEN 30 ELSE 31

\* date comparison a >= b
DateGE(a, b) ==
    \/ a[1] > b[1]
    \/ a[1] = b[1] /\ a[2] > b[2]
    \/ a[1] = b[1] /\ a[2] = b[2] /\ a[3] >= b[3]

\* today.replace(day=1) + relativedelta(months=+m)
MonthStartPlus(dt, m) ==
    LET k == (dt[2] - 1) + m
    IN MkDate(dt[1] + (k \div 12), (k % 12) + 1, 1)

PrevDay(dt) ==
    IF dt[3] > 1 THEN MkDate(dt[1], dt[2], dt[3] - 1)
    ELSE IF dt[2] > 1 THEN MkDate(dt[1], dt[2] - 1, LastDom(dt[1], dt[2] - 1))
    ELSE MkDate(dt[1] - 1, 12, 31)

NextDay(dt) ==
    IF dt[3] < LastDom(dt[1], dt[2]) THEN MkDate(dt[1], dt[2], dt[3] + 1)
    ELSE IF dt[2] < 12 THEN MkDate(dt[1], dt[2] + 1, 1)
    ELSE MkDate(dt[1] + 1, 1, 1)

\* dt - timedelta(days=k)
RECURSIVE MinusDays(_, _)
MinusDays(dt, k) == IF k = 0 THEN dt ELSE MinusDays(PrevDay(dt), k - 1)

(***************************************************************************)
(* The scheduler, src/app.py                                               *)
(***************************************************************************)
MonthsAhead == 12
DefaultDueDay == 15
MaxDueDay == 28
ReminderDays == 7

Max(a, b) == IF a >= b THEN a ELSE b
Min(a, b) == IF a <= b THEN a ELSE b

\* a schedule argument: None, or a list of Python values
NoSchedule == [none |-> TRUE, items |-> <<>>]
ListSchedule(items) == [none |-> FALSE, items |-> items]

NoneResult == [due |-> NoDate, amt |-> 0]

app_coerce_amount(x) ==
    LET r == ParseFloat(Strip(Remove(Remove(Str(x), ","), "$")))
    IN IF r.ok THEN r.v ELSE 0

\* lines 31-35: int(str(due_day).strip() or "15"), except -> 15, then the clamp
app_due_day(due_day) ==
    LET t == Strip(Str(due_day))
        r == ParseInt(IF t # <<>> THEN t ELSE <<"1", "5">>)
        v == IF r.ok THEN r.v ELSE DefaultDueDay
    IN Max(1, Min(MaxDueDay, v))

Zeros(k) == [i \in 1..Max(0, k) |-> 0]

\* the cut keeping the last twelve entries instead of the first
app_schedule_tail(premium_schedule) ==
    LET items == IF premium_schedule.none THEN <<>> ELSE premium_schedule.items
        coerced == [i \in 1..Len(items) |-> app_coerce_amount(items[i])]
        padded == coerced \o Zeros(MonthsAhead - Len(coerced))
    IN SubSeq(padded, Len(padded) - MonthsAhead + 1, Len(padded))

\* lines 37-39: coerce, pad with 0.0, cut to 12
app_schedule(premium_schedule) ==
    LET items == IF premium_schedule.none THEN <<>> ELSE premium_schedule.items
        coerced == [i \in 1..Len(items) |-> app_coerce_amount(items[i])]
        padded == coerced \o Zeros(MonthsAhead - Len(coerced))
    IN SubSeq(padded, 1, MonthsAhead)

\* a due date equal to today taken as past
app_qualifies_strict(amt, due_dt, today) ==
    amt > 0 /\ DateGE(due_dt, today) /\ due_dt # today

\* line 47: the cycle is taken
app_qualifies(amt, due_dt, today) == amt > 0 /\ DateGE(due_dt, today)

\* lines 41-50: the loop over m, from m on
RECURSIVE app_loop(_, _, _, _)
app_loop(schedule, due_day, today, m) ==
    IF m >= MonthsAhead THEN NoneResult
    ELSE LET cycle_month == MonthStartPlus(today, m)
             y == cycle_month[1]
             mo == cycle_month[2]
             last_dom == LastDom(y, mo)
             due_dt == MkDate(y, mo, Min(due_day, last_dom))
             amt == schedule[m + 1]
         IN IF app_qualifies(amt, due_dt, today)
            THEN [due |-> due_dt, amt |-> amt]
            ELSE app_loop(schedule, due_day, today, m + 1)

\* lines 24-50; the singleton sets bind the normalized values once
find_next_premium(premium_schedule, due_day, today) ==
    CHOOSE r \in {app_loop(schedule, day, today, 0) :
                    schedule \in {app_schedule(premium_schedule)},
                    day \in {app_due_day(due_day)}} : TRUE

(***************************************************************************)
(* The scheduler's second copy, src/notifier.py                            *)
(***************************************************************************)
notifier_coerce_amount(x) ==
    LET r == ParseFloat(Strip(Remove(Remove(Str(x), ","), "$")))
    IN IF r.ok THEN r.v ELSE 0

\* lines 29-31
notifier_schedule(premium_schedule) ==
    LET items == IF premium_schedule.none THEN <<>> ELSE premium_schedule.items
        coerced == [i \in 1..Len(items) |-> notifier_coerce_amount(items[i])]
        padded == coerced \o Zeros(MonthsAhead - Len(coerced))
    IN SubSeq(padded, 1, MonthsAhead)

\* lines 33-37: int(str(policy.get("due_day") or "15").strip()), except -> 15, clamp
notifier_due_day(due_day) ==
    LET r == ParseInt(Strip(Str(PyOr(due_day, PyStr(<<"1", "5">>)))))
        v == IF r.ok THEN r.v ELSE DefaultDueDay
    IN Max(1, Min(MaxDueDay, v))

\* line 46: the cycle is taken
notifier_qualifies(amt, due_dt, today) == amt > 0 /\ DateGE(due_dt, today)

\* lines 39-48: the loop over m, from m on
RECURSIVE notifier_loop(_, _, _, _)
notifier_loop(schedule, due_day, today, m) ==
    IF m >= MonthsAhead THEN NoneResult
    ELSE LET base == MonthStartPlus(today, m)
             y == base[1]
             mo == base[2]
             last_dom == LastDom(y, mo)
             due_dt == MkDate(y, mo, Min(due_day, last_dom))
             amt == schedule[m + 1]
         IN IF notifier_qualifies(amt, due_dt, today)
            THEN [due |-> due_dt, amt |-> amt]
            ELSE notifier_loop(schedule, due_day, today, m + 1)

\* policy: a record with at least the fields premium_schedule and due_day
\* lines 27-48; the singleton sets bind the normalized values once
next_due_for_policy(policy, today) ==
    CHOOSE r \in {notifier_loop(schedule, day, today, 0) :
                    schedule \in {notifier_schedule(policy.premium_schedule)},
                    day \in {notifier_due_day(policy.due_day)}} : TRUE

(***************************************************************************)
(* JSON text of a schedule, as json.dumps writes it and json.loads reads   *)
(* it (no character of the model needs an escape)                          *)
(***************************************************************************)
JsonValue(x) ==
    CASE x.kind = "none" -> <<"n", "u", "l", "l">>
      [] x.kind = "str" -> <<"\"">> \o x.s \o <<"\"">>
      [] OTHER -> Str(x)

RECURSIVE JsonJoin(_)
JsonJoin(items) ==
    IF items = <<>> THEN <<>>
    ELSE IF Len(items) = 1 THEN JsonValue(items[1])
    ELSE JsonValue(items[1]) \o <<",", " ">> \o JsonJoin(Tail(items))

\* json.dumps(list)
JsonDumps(items) == <<"[">> \o JsonJoin(items) \o <<"]">>

\* the pieces of cs between the commas that are outside string literals;
\* ok is false when a string literal is left open
SplitTop(cs) ==
    LET quotesBefore(i) == Cardinality({j \in 1..(i - 1) : cs[j] = "\""})
        commas == {i \in 1..Len(cs) : cs[i] = "," /\ quotesBefore(i) % 2 = 0}
        comma(k) == IF k = 0 THEN 0
                    ELSE IF k > Cardinality(commas) THEN Len(cs) + 1
                    ELSE CHOOSE i \in commas : Cardinality({j \in commas : j < i}) = k - 1
    IN [ok |-> quotesBefore(Len(cs) + 1) % 2 = 0,
        parts |-> [k \in 1..(Cardinality(commas) + 1) |->
                      SubSeq(cs, comma(k - 1) + 1, comma(k) - 1)]]

\* a JSON integer or fraction: -?(0|[1-9][0-9]*)(.[0-9]+)?
JsonNumber(cs) ==
    LET body == IF cs # <<>> /\ cs[1] = "-" THEN Tail(cs) ELSE cs
        dot == IF Dots(body) = {} THEN Len(body) + 1 ELSE CHOOSE i \in Dots(body) : TRUE
        ip == SubSeq(body, 1, dot - 1)
        fp == SubSeq(body, dot + 1, Len(body))
        isFloat == Dots(body) # {}
        ok == /\ Cardinality(Dots(body)) <= 1
              /\ IsDigitStr(ip) /\ (Len(ip) = 1 \/ ip[1] # "0")
              /\ (isFloat => IsDigitStr(fp))
    IN IF ~ok THEN [ok |-> FALSE, v |-> PyNone]
       ELSE IF isFloat THEN [ok |-> TRUE, v |-> PyFloat(ParseFloat(cs).v)]
       ELSE [ok |-> TRUE, v |-> PyInt(ParseInt(cs).v)]

\* one element of a JSON list
JsonElement(cs) ==
    LET t == Strip(cs)
    IN IF t = <<"n", "u", "l", "l">> THEN [ok |-> TRUE, v |-> PyNone]
       ELSE IF Len(t) >= 2 /\ t[1] = "\"" /\ t[Len(t)] = "\""
       THEN [ok |-> ~(\E i \in 2..(Len(t) - 1) : t[i] = "\""),
             v |-> PyStr(SubSeq(t, 2, Len(t) - 1))]
       ELSE JsonNumber(t)

\* json.loads(text) when it yields a list; [ok |-> FALSE] stands for an error
\* or for a value that is no list
JsonLoadsList(text) ==
    LET t == Strip(text)
        inner == SubSeq(t, 2, Len(t) - 1)
        sp == SplitTop(inner)
        elems == [i \in 1..Len(sp.parts) |-> JsonElement(sp.parts[i])]
    IN IF ~(Len(t) >= 2 /\ t[1] = "[" /\ t[Len(t)] = "]") THEN [ok |-> FALSE, items |-> <<>>]
       ELSE IF Strip(inner) = <<>> THEN [ok |-> TRUE, items |-> <<>>]
       ELSE IF sp.ok /\ \A i \in 1..Len(elems) : elems[i].ok
       THEN [ok |-> TRUE, items |-> [i \in 1..Len(elems) |-> elems[i].v]]
       ELSE [ok |-> FALSE, items |-> <<>>]

(***************************************************************************)
(* The policy store, src/sheets_db.py.  The worksheet is the sequence of   *)
(* its data rows (the header row 1 is left out); a row is a sequence of    *)
(* ten cells, each a string.                                               *)
(***************************************************************************)
Columns == 10
ColPolicyNumber == 2
ColTracking == 8

\* (x or "").strip() of a text argument (a str or None)
TextCell(x) == Strip(PyOr(x, PyStr(<<>>)).s)

\* line 90: str(int(due_day) if str(due_day).strip().isdigit() else 15)
DueDayCell(due_day) ==
    IF IsDigitStr(Strip(Str(due_day)))
    THEN Str(PyInt(IF due_day.kind = "int" THEN due_day.n ELSE ParseInt(due_day.s).v))
    ELSE Str(PyInt(DefaultDueDay))

\* line 88
TrackingCell(is_tracking) == IF is_tracking THEN <<"1">> ELSE <<"0">>

\* lines 80-91: the row add_policy appends; created_at is the clock's text
PolicyRow(insured_name, policy_number, carrier, premium_mode, premium_schedule, wire_reference, wiring_instructions, is_tracking, due_day, now) ==
    << TextCell(insured_name),
       TextCell(policy_number),
       TextCell(carrier),
       TextCell(premium_mode),
       JsonDumps(IF premium_schedule.none THEN <<>> ELSE premium_schedule.items),
       TextCell(wire_reference),
       TextCell(wiring_instructions),
       TrackingCell(is_tracking),
       <<"T">> \o NatStr(now),
       DueDayCell(due_day) >>

\* lines 107-112: the schedule of a row
RowSchedule(cell) ==
    LET r == JsonLoadsList(IF cell # <<>> THEN cell ELSE <<"[", "]">>)
    IN ListSchedule(IF r.ok THEN r.items ELSE <<>>)

\* lines 113-124: the dict of a row
PolicyOfRow(row) ==
    [insured_name |-> row[1], policy_number |-> row[2], carrier |-> row[3],
     premium_mode |-> row[4], premium_schedule |-> RowSchedule(row[5]),
     wire_reference |-> row[6], wiring_instructions |-> row[7],
     is_tracking |-> row[8], created_at |-> row[9], due_day |-> PyStr(row[10])]

BlankRow(row) == \A i \in 1..Len(row) : row[i] = <<>>

\* lines 95-125: get_policies over the data rows
get_policies(rows) ==
    LET kept == SelectSeq(rows, LAMBDA row : ~(row = <<>> \/ BlankRow(row)))
    IN [i \in 1..Len(kept) |->
          PolicyOfRow(SubSeq(kept[i] \o [j \in 1..Columns |-> <<>>], 1, Columns))]

\* the argument stripped before it is compared, as add_policy strips it
RowMatchesStripped(row, policy_number) ==
    Len(row) > 1 /\ row[ColPolicyNumber] = Strip(policy_number)

\* line 133 / 144: len(row) > 1 and row[1] == policy_number
RowMatches(row, policy_number) ==
    Len(row) > 1 /\ row[ColPolicyNumber] = policy_number

\* lines 132-133 / 143-144: the worksheet row number (the header is row 1) of
\* the first data row that matches, scanning from data row i; 0 when none does
RECURSIVE FindRow(_, _, _)
FindRow(rows, policy_number, i) ==
    IF i > Len(rows) THEN 0
    ELSE IF RowMatches(rows[i], policy_number) THEN i + 1
    ELSE FindRow(rows, policy_number, i + 1)

\* ws.update_cell(idx, col, value) on the data rows
UpdateCell(rows, idx, col, value) == [rows EXCEPT ![idx - 1][col] = value]

\* ws.delete_rows(idx) on the data rows
DeleteRows(rows, idx) ==
    [i \in 1..(Len(rows) - 1) |-> IF i < idx - 1 THEN rows[i] ELSE rows[i + 1]]

\* lines 128-136: the data rows afterwards and the value returned
update_policy_tracking(rows, policy_number, is_tracking) ==
    LET idx == FindRow(rows, policy_number, 1)
    IN IF idx # 0
       THEN [rows |-> UpdateCell(rows, idx, ColTracking, TrackingCell(is_tracking)),
             ret |-> TRUE]
       ELSE [rows |-> rows, ret |-> FALSE]

\* every matching row deleted instead of the first
delete_policy_all(rows, policy_number) ==
    [rows |-> SelectSeq(rows, LAMBDA row : ~RowMatches(row, policy_number)),
     ret |-> FindRow(rows, policy_number, 1) # 0]

\* lines 139-151: the data rows afterwards and the value returned
delete_policy(rows, policy_number) ==
    LET idx == FindRow(rows, policy_number, 1)
    IN IF idx # 0
       THEN [rows |-> DeleteRows(rows, idx), ret |-> TRUE]
       ELSE [rows |-> rows, ret |-> FALSE]

(***************************************************************************)
(* The reminder job, src/notifier.py                                       *)
(***************************************************************************)
\* a reminder sent on every day from the reminder date on
job_triggers_late(p, today) ==
    /\ p.is_tracking = <<"1">>
    /\ \E r \in {next_due_for_policy(p, today)} :
          /\ r.due # NoDate /\ r.amt > 0
          /\ DateGE(today, MinusDays(r.due, ReminderDays))

\* the reminder date taken one day early
job_triggers_early(p, today) ==
    /\ p.is_tracking = <<"1">>
    /\ \E r \in {next_due_for_policy(p, today)} :
          /\ r.due # NoDate /\ r.amt > 0
          /\ MinusDays(r.due, ReminderDays + 1) = today

\* lines 69-75: the policy is tracked, has a next due date, and today is the
\* reminder date
job_triggers(p, today) ==
    /\ p.is_tracking = <<"1">>
    /\ \E r \in {next_due_for_policy(p, today)} :
          /\ r.due # NoDate /\ r.amt > 0
          /\ MinusDays(r.due, ReminderDays) = today

\* the guard left out
send_email_returns_never(to) == FALSE

\* lines 52-53: _send_email returns at once
send_email_returns(to) == to = <<>>

(***************************************************************************)
(* State                                                                   *)
(***************************************************************************)
VARIABLES
    today,             \* the date date.today() returns
    due_day,           \* scheduler input: the raw due day
    premium_schedule,  \* scheduler input: the raw schedule
    pc,                \* which calls of the scheduler have been made
    viewDay, viewRes,  \* find_next_premium: normalized due day, result
    jobDay, jobRes,    \* _next_due_for_policy: normalized due day, result
    storedRes,         \* find_next_premium on the record read back from the store
    sheet,             \* the worksheet's data rows
    clock,             \* datetime.utcnow(), in ticks
    lastOp,            \* the last store operation, its arguments and return value
    recipients,        \* EMAIL_RECIPIENTS
    jobPc,             \* check_due_premiums: "idle", "running", "done", "failed"
    policies,          \* the list get_policies() returned to the running job
    idx,               \* the position of the job's loop in policies
    outbox,            \* the messages the SMTP server accepted
    attempts,          \* the number of SMTP sessions opened
    shown              \* what the viewer last displayed: <<day, next due, reminder>>

schedVars == <<due_day, premium_schedule, pc, viewDay, viewRes, jobDay, jobRes, storedRes>>
storeVars == <<sheet, clock, lastOp>>
jobVars == <<recipients, jobPc, policies, idx, outbox, attempts>>
vars == <<today, schedVars, storeVars, jobVars, shown>>

NoOp == [op |-> "none", n |-> <<>>, b |-> FALSE, ret |-> FALSE]
NoShow == <<NoDate, NoDate, NoDate>>

SchedIdle ==
    /\ pc = "input" /\ viewDay = 0 /\ jobDay = 0
    /\ viewRes = NoneResult /\ jobRes = NoneResult /\ storedRes = NoneResult
StoreIdle == sheet = <<>> /\ clock = 0 /\ lastOp = NoOp
JobIdle ==
    /\ jobPc = "idle" /\ policies = <<>> /\ idx = 0 /\ outbox = <<>> /\ attempts = 0

(***************************************************************************)
(* Inputs of the scheduler                                                 *)
(***************************************************************************)
DueDayInputs ==
    { PyInt(-3), PyInt(0), PyInt(15), PyInt(29), PyInt(99),
      PyStr(<<"a", "b", "c">>), PyStr(<<>>), PyNone,
      PyStr(<<"0">>), PyStr(<<" ", "7", " ">>) }

\* every third month, as in the documented scenario
Quarterly(i) == IF i % 3 = 1 THEN PyInt(100) ELSE PyInt(0)
\* nothing due in the twelve months, an amount beyond them
NothingDue(i) == IF i > MonthsAhead THEN PyInt(999) ELSE PyInt(0)
\* only the last of the twelve months
LastMonth(i) ==
    IF i = MonthsAhead THEN PyFloat(25050)
    ELSE IF i > MonthsAhead THEN PyInt(999) ELSE PyFloat(0)
\* malformed entries before the first well-formed one
Noisy(i) ==
    CASE i = 1 -> PyStr(<<"a", "b", "c">>)
      [] i = 2 -> PyInt(-5)
      [] i = 3 -> PyNone
      [] i = 4 -> PyStr(<<"$", "1", ",", "0", "0", "0", ".", "5", "0">>)
      [] OTHER -> PyStr(<<" ", "7", "5", " ">>)
\* the current month and the next
TwoMonths(i) == IF i = 1 THEN PyStr(<<"$", "2", "0">>) ELSE IF i = 2 THEN PyInt(100) ELSE PyInt(0)

\* the lengths of the schedules drawn: short, exact, and longer than twelve
ScheduleLengths == {0, 1, 2, 5, MonthsAhead - 1} \cup (MonthsAhead..MaxSchedLen)

ScheduleInputs ==
    {NoSchedule}
    \cup {ListSchedule([i \in 1..k |-> Quarterly(i)]) : k \in ScheduleLengths}
    \cup {ListSchedule([i \in 1..k |-> NothingDue(i)]) : k \in ScheduleLengths}
    \cup {ListSchedule([i \in 1..k |-> LastMonth(i)]) : k \in ScheduleLengths}
    \cup {ListSchedule([i \in 1..k |-> Noisy(i)]) : k \in ScheduleLengths}
    \cup {ListSchedule([i \in 1..k |-> TwoMonths(i)]) : k \in ScheduleLengths}

TodayInputs ==
    {MkDate(y, mo, d) : y \in 2024..LastYear, mo \in {1, 2, 7, 12}, d \in {1, 15, 16, 28}}

InitSched ==
    /\ today \in TodayInputs
    /\ due_day \in DueDayInputs
    /\ premium_schedule \in ScheduleInputs
    /\ SchedIdle /\ StoreIdle /\ JobIdle
    /\ recipients = <<>>
    /\ shown = NoShow

\* the viewer computes the next premium of the inputs
CallViewer ==
    /\ pc = "input"
    /\ viewDay' = app_due_day(due_day)
    /\ viewRes' = find_next_premium(premium_schedule, due_day, today)
    /\ pc' = "viewed"
    /\ UNCHANGED <<today, due_day, premium_schedule, jobDay, jobRes, storedRes,
                   storeVars, jobVars, shown>>

\* the reminder job computes the next due date of the same inputs
CallJob ==
    /\ pc = "viewed"
    /\ jobDay' = notifier_due_day(due_day)
    /\ jobRes' = next_due_for_policy(
                    [premium_schedule |-> premium_schedule, due_day |-> due_day], today)
    /\ pc' = "job"
    /\ UNCHANGED <<today, due_day, premium_schedule, viewDay, viewRes, storedRes,
                   storeVars, jobVars, shown>>

\* the inputs are added to an empty store, listed, and the viewer computes the
\* next premium of the listed record
CallStored ==
    /\ pc = "job"
    /\ \E row \in {PolicyRow(PyStr(<<"N">>), PyStr(<<"P">>), PyStr(<<"C">>),
                              PyStr(<<"M">>), premium_schedule, PyNone, PyNone,
                              TRUE, due_day, 0)} :
         \E p \in {get_policies(<<row>>)[1]} :
            storedRes' = find_next_premium(p.premium_schedule, p.due_day, today)
    /\ pc' = "stored"
    /\ UNCHANGED <<today, due_day, premium_schedule, viewDay, viewRes, jobDay, jobRes,
                   storeVars, jobVars, shown>>

NextSched == CallViewer \/ CallJob \/ CallStored

SpecSched == InitSched /\ [][NextSched]_vars

(***************************************************************************)
(* The store under its three operations (SpecStore)                        *)
(***************************************************************************)
PolicyNumberInputs == {PyStr(<<"A">>), PyStr(<<" ", "A">>), PyStr(<<"B">>), PyNone}
LookupInputs == {<<"A">>, <<" ", "A">>, <<"B">>, <<>>}

InitStore ==
    /\ today = MkDate(2025, 1, 8)
    /\ due_day = PyNone /\ premium_schedule = NoSchedule
    /\ SchedIdle /\ StoreIdle /\ JobIdle
    /\ recipients = <<>>
    /\ shown = NoShow

\* add_policy: one row appended; the clock may have ticked since the last add
AddPolicy ==
    /\ Len(sheet) < MaxRows
    /\ \E policy_number \in PolicyNumberInputs, is_tracking \in BOOLEAN,
          tick \in {0, 1} :
         /\ clock + tick <= MaxTicks
         /\ clock' = clock + tick
         /\ \E row \in {PolicyRow(PyStr(<<"N">>), policy_number, PyStr(<<"C">>),
                                  PyStr(<<"M">>), ListSchedule(<<PyInt(100)>>),
                                  PyStr(<<"R">>), PyStr(<<"W">>), is_tracking,
                                  PyInt(DefaultDueDay), clock + tick)} :
              /\ sheet' = Append(sheet, row)
              /\ lastOp' = [op |-> "add", n |-> row[ColPolicyNumber],
                            b |-> is_tracking, ret |-> TRUE]
    /\ UNCHANGED <<today, schedVars, jobVars, shown>>

UpdateTracking ==
    /\ \E policy_number \in LookupInputs, is_tracking \in BOOLEAN :
         \E r \in {update_policy_tracking(sheet, policy_number, is_tracking)} :
            /\ sheet' = r.rows
            /\ lastOp' = [op |-> "update", n |-> policy_number,
                          b |-> is_tracking, ret |-> r.ret]
    /\ UNCHANGED <<today, schedVars, clock, jobVars, shown>>

DeletePolicy ==
    /\ \E policy_number \in LookupInputs :
         \E r \in {delete_policy(sheet, policy_number)} :
            /\ sheet' = r.rows
            /\ lastOp' = [op |-> "delete", n |-> policy_number,
                          b |-> FALSE, ret |-> r.ret]
    /\ UNCHANGED <<today, schedVars, clock, jobVars, shown>>

NextStore == AddPolicy \/ UpdateTracking \/ DeletePolicy

SpecStore == InitStore /\ [][NextStore]_vars

(***************************************************************************)
(* One run of the reminder job (SpecJob)                                   *)
(***************************************************************************)
Recipients == <<"ops">>

\* rows as add_policy writes them
JobRow(is_tracking, items, day) ==
    PolicyRow(PyStr(<<"N">>), PyStr(<<"P">>), PyStr(<<"C">>), PyStr(<<"M">>),
              ListSchedule(items), PyStr(<<"R">>), PyStr(<<"W">>), is_tracking,
              PyInt(day), 0)

JobRows ==
    {JobRow(tr, <<PyInt(100)>>, d) : tr \in BOOLEAN, d \in {14, 15, 16}}
    \cup {JobRow(tr, <<PyInt(0), PyFloat(25050)>>, 1) : tr \in BOOLEAN}
    \cup {JobRow(tr, <<>>, 15) : tr \in BOOLEAN}

RECURSIVE RowLists(_)
RowLists(k) ==
    IF k = 0 THEN {<<>>}
    ELSE RowLists(k - 1)
         \cup {Append(rows, row) : rows \in {l \in RowLists(k - 1) : Len(l) = k - 1},
                                  row \in JobRows}

InitJob ==
    /\ today \in {MkDate(2025, 1, 8), MkDate(2024, 2, 23)}
    /\ due_day = PyNone /\ premium_schedule = NoSchedule
    /\ SchedIdle /\ JobIdle
    /\ sheet \in RowLists(MaxRows) /\ clock = 0 /\ lastOp = NoOp
    /\ recipients \in {<<>>, Recipients}
    /\ shown = NoShow

\* lines 67-68: the job lists the policies
JobStart ==
    /\ jobPc = "idle"
    /\ policies' = get_policies(sheet)
    /\ idx' = 1
    /\ jobPc' = "running"
    /\ UNCHANGED <<today, schedVars, storeVars, recipients, outbox, attempts, shown>>

\* lines 69-75: the policy at idx gets no reminder today
JobSkip ==
    /\ jobPc = "running" /\ idx <= Len(policies)
    /\ ~job_triggers(policies[idx], today)
    /\ idx' = idx + 1
    /\ UNCHANGED <<today, schedVars, storeVars, recipients, jobPc, policies,
                   outbox, attempts, shown>>

\* lines 76-92 and 51-62: the reminder of the policy at idx is handed to
\* _send_email, which returns at once or has the server accept the message
JobSend ==
    /\ jobPc = "running" /\ idx <= Len(policies)
    /\ job_triggers(policies[idx], today)
    /\ IF send_email_returns(recipients)
       THEN UNCHANGED <<outbox, attempts>>
       ELSE /\ attempts' = attempts + 1
            /\ \E r \in {next_due_for_policy(policies[idx], today)} :
                  outbox' = Append(outbox, [idx |-> idx, on |-> today, to |-> recipients,
                                            due |-> r.due, amt |-> r.amt])
    /\ idx' = idx + 1
    /\ UNCHANGED <<today, schedVars, storeVars, recipients, jobPc, policies, shown>>

\* lines 58-62: the SMTP session raises, and the exception leaves the job
JobSendFail ==
    /\ jobPc = "running" /\ idx <= Len(policies)
    /\ job_triggers(policies[idx], today)
    /\ ~send_email_returns(recipients)
    /\ attempts' = attempts + 1
    /\ jobPc' = "failed"
    /\ UNCHANGED <<today, schedVars, storeVars, recipients, policies, idx, outbox, shown>>

\* line 68: the list is exhausted
JobFinish ==
    /\ jobPc = "running" /\ idx > Len(policies)
    /\ jobPc' = "done"
    /\ UNCHANGED <<today, schedVars, storeVars, recipients, policies, idx,
                   outbox, attempts, shown>>

NextJob == JobStart \/ JobSkip \/ JobSend \/ JobSendFail \/ JobFinish

SpecJob == InitJob /\ [][NextJob]_vars

(***************************************************************************)
(* The job run once on every day, the viewer looked at now and then        *)
(* (SpecDaily): one tracked policy whose record is never changed, a        *)
(* configured recipients list, no send failing.  clock counts the days.    *)
(***************************************************************************)
DailyRows ==
    {JobRow(TRUE, items, d) :
        items \in {<<PyInt(100)>>, <<PyInt(0), PyInt(100)>>, <<PyInt(100), PyInt(100)>>},
        d \in {5, 15}}

InitDaily ==
    /\ today = MkDate(2025, 1, 20)
    /\ due_day = PyNone /\ premium_schedule = NoSchedule
    /\ SchedIdle /\ JobIdle
    /\ \E row \in DailyRows : sheet = <<row>>
    /\ clock = 0 /\ lastOp = NoOp
    /\ recipients = Recipients
    /\ shown = NoShow

\* src/app.py lines 53-57: the viewer displays the policy's next due date and
\* reminder date; the first display is the one kept
ViewerShow ==
    /\ shown = NoShow
    /\ \E p \in {get_policies(sheet)[1]} :
         \E r \in {find_next_premium(p.premium_schedule, p.due_day, today)} :
            /\ r.due # NoDate
            /\ shown' = <<today, r.due, MinusDays(r.due, ReminderDays)>>
    /\ UNCHANGED <<today, schedVars, storeVars, jobVars>>

\* the day ends after the job's run of the day
Midnight ==
    /\ jobPc = "done" /\ clock < MaxDays
    /\ today' = NextDay(today)
    /\ clock' = clock + 1
    /\ jobPc' = "idle" /\ policies' = <<>> /\ idx' = 0
    /\ UNCHANGED <<schedVars, sheet, lastOp, recipients, outbox, attempts, shown>>

NextDaily == JobStart \/ JobSkip \/ JobSend \/ JobFinish \/ ViewerShow \/ Midnight

SpecDaily == InitDaily /\ [][NextDaily]_vars

(***************************************************************************)
(* Properties of the scheduler (SpecSched)                                 *)
(***************************************************************************)
Viewed == pc \in {"viewed", "job", "stored"}
Jobbed == pc \in {"job", "stored"}

LeapsBefore(y) == ((y - 1) \div 4) - ((y - 1) \div 100) + ((y - 1) \div 400)

RECURSIVE DaysBeforeMonth(_, _)
DaysBeforeMonth(y, mo) ==
    IF mo = 1 THEN 0 ELSE DaysBeforeMonth(y, mo - 1) + LastDom(y, mo - 1)

\* the number of the day dt, counted from a fixed origin
DayNumber(dt) == 365 * dt[1] + LeapsBefore(dt[1]) + DaysBeforeMonth(dt[1], dt[2]) + dt[3]

\* the calendar month m months after the month y-mo
RECURSIVE MonthAfter(_, _, _)
MonthAfter(y, mo, m) ==
    IF m = 0 THEN <<y, mo>>
    ELSE IF mo = 12 THEN MonthAfter(y + 1, 1, m - 1)
    ELSE MonthAfter(y, mo + 1, m - 1)

\* the due date of cycle m for the normalized due day `day`
CycleDue(day, t, m) ==
    LET ym == MonthAfter(t[1], t[2], m)
    IN MkDate(ym[1], ym[2], Min(day, LastDom(ym[1], ym[2])))

\* the cycle with the smallest index whose amount is positive and whose due
\* date is not before t; the "no upcoming due date" value when there is none
FirstCycle(amounts, day, t) ==
    LET Q == {m \in 0..(MonthsAhead - 1) :
                amounts[m + 1] > 0 /\ DayNumber(CycleDue(day, t, m)) >= DayNumber(t)}
    IN IF Q = {} THEN NoneResult
       ELSE LET m == CHOOSE k \in Q : \A j \in Q : k <= j
            IN [due |-> CycleDue(day, t, m), amt |-> amounts[m + 1]]

\* C1: each scheduler returns the first cycle m in 0..11 whose amount is
\* positive and whose due date (the month m months after today's, on the
\* normalized due day) is today or later, and (None, 0.0) when there is none
C1_FirstQualifyingCycle ==
    /\ Viewed => \A amounts \in {app_schedule(premium_schedule)} :
                    viewRes = FirstCycle(amounts, viewDay, today)
    /\ Jobbed => \A amounts \in {notifier_schedule(premium_schedule)} :
                    jobRes = FirstCycle(amounts, jobDay, today)

\* a due date equal to today was returned by both, for the current month
C1_Witness ==
    /\ Jobbed /\ viewRes.due = today /\ jobRes.due = today
    /\ viewRes.amt > 0

\* the table of the documented due-day normalizations
DueDayTable(raw, day) ==
    /\ day \in 1..MaxDueDay
    /\ raw = PyInt(0) => day = 1
    /\ raw \in {PyInt(29), PyInt(99)} => day = MaxDueDay
    /\ raw \in {PyStr(<<"a", "b", "c">>), PyStr(<<>>), PyNone} => day = DefaultDueDay

\* C3: the due-day normalization of each implementation yields a day in
\* 1..28 and maps 0 to 1, 29 and 99 to 28, and "abc", "" and None to 15
C3_DueDayNormalization ==
    /\ Viewed => DueDayTable(due_day, viewDay)
    /\ Jobbed => DueDayTable(due_day, jobDay)

\* C4: the viewer's scheduler and the reminder job's scheduler return the
\* same result for every schedule, raw due day and date
C4_SameFunction == Jobbed => viewRes = jobRes

\* the first twelve entries of a raw schedule, extended with zero amounts
Canonical12(raw) ==
    LET items == IF raw.none THEN <<>> ELSE raw.items
    IN ListSchedule([i \in 1..MonthsAhead |->
                        IF i <= Len(items) THEN items[i] ELSE PyFloat(0)])

\* C8: a schedule shorter than twelve gives the result of the schedule
\* extended with zero amounts, a longer one the result of its first twelve
C8_PaddingTruncation ==
    \A canonical \in {Canonical12(premium_schedule)} :
        /\ Viewed => viewRes = find_next_premium(canonical, due_day, today)
        /\ Jobbed => jobRes = next_due_for_policy(
                        [premium_schedule |-> canonical, due_day |-> due_day], today)

\* a schedule with a positive thirteenth entry and nothing due in the twelve
C8_Witness ==
    /\ Jobbed /\ ~premium_schedule.none
    /\ Len(premium_schedule.items) > MonthsAhead
    /\ app_coerce_amount(premium_schedule.items[MonthsAhead + 1]) > 0
    /\ viewRes = NoneResult /\ jobRes = NoneResult

\* C10: the scheduler's result for the record listed after addPolicy equals
\* its result for the schedule and due day passed to addPolicy
C10_PersistPreservesResult == pc = "stored" => storedRes = viewRes

(***************************************************************************)
(* Properties of the store (SpecStore)                                     *)
(***************************************************************************)
\* the operation of the step, its arguments and its return value
Op == lastOp'

\* some record stored before the step has exactly the policy number n
Stored(n) ==
    \E listed \in {get_policies(sheet)} :
        \E i \in 1..Len(listed) : listed[i].policy_number = n

\* C5: setTracking and deletePolicy return true exactly when some stored
\* record has the policy number looked up; on a miss they return false and
\* leave every stored record unchanged
C5_LookupMiss ==
    [][Op.op \in {"update", "delete"} =>
          /\ Op.ret <=> Stored(Op.n)
          /\ ~Op.ret => sheet' = sheet]_vars

\* a lookup has missed on a store holding records
C5_Witness ==
    /\ lastOp.op \in {"update", "delete"} /\ ~lastOp.ret
    /\ sheet # <<>> /\ lastOp.n # <<>>

\* the position in the store of the first record with policy number n
FirstWith(n) ==
    CHOOSE i \in 1..Len(sheet) :
        /\ sheet[i][ColPolicyNumber] = n
        /\ \A j \in 1..(i - 1) : sheet[j][ColPolicyNumber] # n

\* C6: an add leaves the records already stored as they are; setTracking on
\* a hit changes only the tracking cell of the first record with that number;
\* deletePolicy on a hit removes exactly that first record and keeps all
\* others, in their order
C6_Frame ==
    [][/\ Op.op = "add" =>
             /\ Len(sheet') = Len(sheet) + 1
             /\ SubSeq(sheet', 1, Len(sheet)) = sheet
       /\ (Op.op = "update" /\ Op.ret) =>
             /\ Len(sheet') = Len(sheet)
             /\ \A i \in 1..Len(sheet), c \in 1..Columns :
                   IF i = FirstWith(Op.n) /\ c = ColTracking
                   THEN sheet'[i][c] = (IF Op.b THEN <<"1">> ELSE <<"0">>)
                   ELSE sheet'[i][c] = sheet[i][c]
       /\ (Op.op = "delete" /\ Op.ret) =>
             /\ Len(sheet') = Len(sheet) - 1
             /\ \A i \in 1..Len(sheet') :
                   sheet'[i] = (IF i < FirstWith(Op.n) THEN sheet[i] ELSE sheet[i + 1])
      ]_vars

\* a delete has hit and a record with the same policy number is still stored
C6_Witness ==
    /\ lastOp.op = "delete" /\ lastOp.ret
    /\ \E i \in 1..Len(sheet) : sheet[i][ColPolicyNumber] = lastOp.n

(***************************************************************************)
(* Properties of the reminder job (SpecJob)                                *)
(***************************************************************************)
\* the number of messages accepted for the policy at position i of the list
Sent(i) == Cardinality({k \in 1..Len(outbox) : outbox[k].idx = i})

\* the days from t to the reminder date of p's next due date (0: the reminder
\* date is t); no next due date: -1000
DaysToReminder(p, t) ==
    LET r == next_due_for_policy(p, t)
    IN IF r.due = NoDate THEN -1000 ELSE DayNumber(r.due) - ReminderDays - DayNumber(t)

\* tracking is on, there is a next due date, and it is seven days after t
Due7(p, t) == p.is_tracking = <<"1">> /\ DaysToReminder(p, t) = 0

\* C2: in a run that no send failed in, a policy is emailed exactly once when
\* tracking is on and its due date minus 7 days is today, and not at all
\* otherwise
C2_EmailedIffDue7 ==
    jobPc = "done" =>
        \A i \in 1..Len(policies) :
            Sent(i) = (IF Due7(policies[i], today) THEN 1 ELSE 0)

\* C2 as amended: the same with a recipients list that is not empty; with an
\* empty list no policy is emailed
C2_EmailedIffDue7AndRecipients ==
    jobPc = "done" =>
        \A i \in 1..Len(policies) :
            Sent(i) = (IF recipients # <<>> /\ Due7(policies[i], today) THEN 1 ELSE 0)

\* a completed run that emailed one policy and not a tracked one whose
\* reminder date is the day before or after
C2_Witness ==
    /\ jobPc = "done" /\ recipients # <<>>
    /\ \E i, j \in 1..Len(policies) :
          /\ Sent(i) = 1 /\ Sent(j) = 0
          /\ policies[j].is_tracking = <<"1">>
          /\ DaysToReminder(policies[j], today) \in {-1, 1}

\* C7: a failed send ends the run as failed, is not tried again, and no later
\* policy is emailed; with an empty recipients list no send is tried and none
\* fails, and a run that completes has gone over all policies
C7_FailurePropagates ==
    /\ attempts > Len(outbox) => jobPc = "failed"
    /\ jobPc = "failed" =>
          /\ attempts = Len(outbox) + 1
          /\ \A k \in 1..Len(outbox) : outbox[k].idx < idx
          /\ ~ENABLED NextJob
    /\ recipients = <<>> => jobPc # "failed" /\ attempts = 0
    /\ jobPc = "done" => idx = Len(policies) + 1

\* a run failed at a policy that is followed by one whose reminder date is today
C7_Witness ==
    /\ jobPc = "failed"
    /\ \E j \in (idx + 1)..Len(policies) : Due7(policies[j], today) /\ Sent(j) = 0

(***************************************************************************)
(* Properties of the daily run (SpecDaily)                                 *)
(***************************************************************************)
\* the viewer showed, on day shown[1], a reminder date on or after that day
Promised == shown # NoShow /\ DayNumber(shown[3]) >= DayNumber(shown[1])

\* the job's run of day d is over
RanOn(d) == DayNumber(today) > DayNumber(d) \/ (today = d /\ jobPc = "done")

RemindedOn(d) == \E k \in 1..Len(outbox) : outbox[k].on = d

SameMonth(a, b) == a[1] = b[1] /\ a[2] = b[2]

\* C9: a reminder date shown by the viewer on or before that date is a day
\* the daily job sends the policy's reminder on
C9_ShownReminderSent ==
    (Promised /\ RanOn(shown[3])) => RemindedOn(shown[3])

\* C9 as amended: the same for a reminder date in the calendar month of the
\* day it was shown on
C9_ShownReminderSentSameMonth ==
    (Promised /\ SameMonth(shown[1], shown[3]) /\ RanOn(shown[3])) => RemindedOn(shown[3])

\* a reminder date shown on an earlier day of its month has passed and the
\* reminder was sent on it
C9_Witness ==
    /\ Promised /\ SameMonth(shown[1], shown[3]) /\ shown[1] # shown[3]
    /\ RanOn(shown[3]) /\ RemindedOn(shown[3])

=============================================================================
